---- MODULE Spec2Model ----
(***************************************************************************)
(* TokenBuilder of rusty_paseto (src/src/builders.rs): a registry of       *)
(* claims, an optional footer, and build(), which drains the registry,     *)
(* merges the serialized claims textually into one JSON object string and  *)
(* hands payload, key and footer to the V2 local codec.                    *)
(*                                                                         *)
(* Strings are sequences of one-character strings, so that the trimming    *)
(* and concatenation build() performs are modelled character by character. *)
(***************************************************************************)
EXTENDS Integers, Sequences, FiniteSets, TLC

VARIABLES builder, twin, op, ret, codec, ret2, codec2, sets, builtFrom, builds,
          footerHist

vars == <<builder, twin, op, ret, codec, ret2, codec2, sets, builtFrom, builds,
          footerHist>>

----------------------------------------------------------------------------
\* Characters and texts

DQ == "\""

Digits == {"0", "1", "2", "3", "4", "5", "6", "7", "8", "9"}

\* The claim keys used (crate::claims, get_key()).
ClaimKeys == {"a", "b"}

\* The values a claim may carry: what its serializer renders, by JSON kind.
Unserializable == [kind |-> "unserializable", text |-> <<>>]

ClaimValues ==
  { [kind |-> "number", text |-> <<"7">>],
    [kind |-> "float",  text |-> <<"1", ".", "5">>],
    [kind |-> "string", text |-> <<DQ, "x", "}", DQ>>],
    [kind |-> "array",  text |-> <<"[", "7", "]">>],
    [kind |-> "object", text |-> <<"{", DQ, "n", DQ, ":", "7", "}">>],
    Unserializable }

\* A claim: a key and a serializable value (PasetoClaim + Serialize).
Claims == [key : ClaimKeys, value : ClaimValues]

NoFooter == "None"

Footers == {NoFooter, "f1", "f2"}

\* The keys on which the codec's encode step fails.
BadKeys == {"bad"}

SharedKeys == {"k1", "k2"} \cup BadKeys

----------------------------------------------------------------------------
\* str::trim_start_matches(c): drops every leading c.
RECURSIVE trim_start_matches(_, _)
trim_start_matches(s, c) ==
  IF Len(s) > 0 /\ Head(s) = c THEN trim_start_matches(Tail(s), c) ELSE s

\* str::trim_end_matches(c): drops every trailing c.
RECURSIVE trim_end_matches(_, _)
trim_end_matches(s, c) ==
  IF Len(s) > 0 /\ s[Len(s)] = c
    THEN trim_end_matches(SubSeq(s, 1, Len(s) - 1), c)
    ELSE s

\* serde_json::to_string(&claim): the claim's own single-key object, or an
\* error when the value cannot be rendered.
to_string(claim) ==
  IF claim.value.kind = "unserializable"
    THEN [ok |-> FALSE, raw |-> <<>>]
    ELSE [ok |-> TRUE,
          raw |-> <<"{", DQ, claim.key, DQ, ":">> \o claim.value.text \o <<"}">>]

----------------------------------------------------------------------------
\* The builder

\* No codec invocation. A codec record tells whether and how often the codec
\* was invoked, with what, and how many claims had been merged by then.
NoCall == [called |-> FALSE, times |-> 0, merged |-> 0, payload |-> <<>>,
           key |-> "", footer |-> NoFooter]

\* V2LocalToken::new(payload, key, footer): one invocation of the codec.
invoke(payload, key, footer, merged) ==
  [called |-> TRUE, times |-> 1, merged |-> merged, payload |-> payload,
   key |-> key, footer |-> footer]

\* The codec's encode step fails (bad key, encoding failure).
encode_fails(key) == key \in BadKeys

\* What build returns after the codec call of its last line: the call's
\* result is wrapped in Ok as it is, so a failing encode step has no error to
\* come back through and the call ends in a panic.
wrap(key) == IF encode_fails(key) THEN "Panic" ELSE "Ok"

\* TokenBuilder::new: empty registry, no footer.
new == [claims |-> [k \in {} |-> Unserializable], footer |-> NoFooter]

\* set_claim as it would be with entry(key).or_insert(value): the first claim
\* under a key stays.
set_claim_keeps_first(b, value) ==
  [b EXCEPT !.claims = [k \in DOMAIN b.claims \cup {value.key} |->
                          IF k \in DOMAIN b.claims THEN b.claims[k] ELSE value]]

\* set_claim as it would be rebuilding the builder around the new registry
\* (..Self::new()): the footer is lost.
set_claim_resets_footer(b, value) ==
  [claims |-> [k \in DOMAIN b.claims \cup {value.key} |->
                 IF k = value.key THEN value ELSE b.claims[k]],
   footer |-> NoFooter]

\* TokenBuilder::set_claim: HashMap::insert under the claim's key.
set_claim(b, value) ==
  [b EXCEPT !.claims = [k \in DOMAIN b.claims \cup {value.key} |->
                          IF k = value.key THEN value ELSE b.claims[k]]]

\* set_footer as it would be with self.footer.or(footer): a footer once set
\* stays.
set_footer_keeps_first(b, footer) ==
  [b EXCEPT !.footer = IF b.footer = NoFooter THEN footer ELSE b.footer]

\* TokenBuilder::set_footer: the footer becomes the argument.
set_footer(b, footer) == [b EXCEPT !.footer = footer]

\* The orders in which HashMap::into_values may yield the registry.
into_values(claims) ==
  LET n == Cardinality(DOMAIN claims)
  IN  {o \in [1..n -> DOMAIN claims] : \A i, j \in 1..n : i # j => o[i] # o[j]}

\* The loop as it would be if a claim that fails to serialize were skipped.
RECURSIVE merge_skips_errors(_, _, _, _)
merge_skips_errors(claims, order, i, payload) ==
  IF i > Len(order) THEN [ok |-> TRUE, payload |-> payload, n |-> i - 1]
  ELSE LET r == to_string(claims[order[i]])
       IN  IF ~r.ok THEN merge_skips_errors(claims, order, i + 1, payload)
           ELSE LET trimmed == trim_end_matches(trim_start_matches(r.raw, "{"), "}")
                IN  merge_skips_errors(claims, order, i + 1,
                                       payload \o trimmed \o <<",">>)

\* The for loop of build: serialize each claim, strip its braces, append it
\* and a comma; the first serialization error ends the loop (the ? operator).
RECURSIVE merge(_, _, _, _)
merge(claims, order, i, payload) ==
  IF i > Len(order) THEN [ok |-> TRUE, payload |-> payload, n |-> i - 1]
  ELSE LET r == to_string(claims[order[i]])
       IN  IF ~r.ok THEN [ok |-> FALSE, payload |-> payload, n |-> i - 1]
           ELSE LET trimmed == trim_end_matches(trim_start_matches(r.raw, "{"), "}")
                IN  merge(claims, order, i + 1, payload \o trimmed \o <<",">>)

\* build as it would be iterating self.claims.values() in place of the taken
\* registry: the claims stay registered.
build_keeps_registry(b, key, order) ==
  LET m == merge(b.claims, order, 1, <<"{">>)
  IN  IF ~m.ok
        THEN [builder |-> b, ret |-> "SerErr", codec |-> NoCall]
        ELSE [builder |-> b, ret |-> wrap(key),
              codec |-> invoke(trim_end_matches(m.payload, ",") \o <<"}">>,
                               key, b.footer, m.n)]

\* build as it would be with payload.pop() for the trailing comma: the last
\* character goes, comma or not.
build_pops_comma(b, key, order) ==
  LET m == merge(b.claims, order, 1, <<"{">>)
      after == [b EXCEPT !.claims = [k \in {} |-> Unserializable]]
  IN  IF ~m.ok
        THEN [builder |-> after, ret |-> "SerErr", codec |-> NoCall]
        ELSE [builder |-> after, ret |-> wrap(key),
              codec |-> invoke(SubSeq(m.payload, 1, Len(m.payload) - 1) \o <<"}">>,
                               key, b.footer, m.n)]

\* build as it would be calling the codec before the result of the loop is
\* looked at: a payload cut short at the failing claim reaches the codec.
build_encodes_partial(b, key, order) ==
  LET m == merge(b.claims, order, 1, <<"{">>)
      after == [b EXCEPT !.claims = [k \in {} |-> Unserializable]]
      call == invoke(trim_end_matches(m.payload, ",") \o <<"}">>, key, b.footer, m.n)
  IN  IF ~m.ok
        THEN [builder |-> after, ret |-> "SerErr", codec |-> call]
        ELSE [builder |-> after, ret |-> wrap(key), codec |-> call]

\* build as it would be iterating the registry in place and clearing it after
\* the loop: a serialization error leaves the claims registered.
build_clears_on_success(b, key, order) ==
  LET m == merge(b.claims, order, 1, <<"{">>)
      after == [b EXCEPT !.claims = [k \in {} |-> Unserializable]]
  IN  IF ~m.ok
        THEN [builder |-> b, ret |-> "SerErr", codec |-> NoCall]
        ELSE [builder |-> after, ret |-> wrap(key),
              codec |-> invoke(trim_end_matches(m.payload, ",") \o <<"}">>,
                               key, b.footer, m.n)]

\* build as it would be with self.footer.take(): the footer is handed to the
\* codec and gone from the builder.
build_takes_footer(b, key, order) ==
  LET m == merge(b.claims, order, 1, <<"{">>)
      after == [claims |-> [k \in {} |-> Unserializable], footer |-> NoFooter]
  IN  IF ~m.ok
        THEN [builder |-> after, ret |-> "SerErr", codec |-> NoCall]
        ELSE [builder |-> after, ret |-> wrap(key),
              codec |-> invoke(trim_end_matches(m.payload, ",") \o <<"}">>,
                               key, b.footer, m.n)]

\* TokenBuilder::build: take the registry, merge it in the order given, drop
\* the trailing comma, close the object and call the codec with the footer.
build(b, key, order) ==
  LET m == merge(b.claims, order, 1, <<"{">>)
      after == [b EXCEPT !.claims = new.claims]
  IN  IF ~m.ok
        THEN [builder |-> after, ret |-> "SerErr", codec |-> NoCall]
        ELSE [builder |-> after, ret |-> wrap(key),
              codec |-> invoke(trim_end_matches(m.payload, ",") \o <<"}">>,
                               key, b.footer, m.n)]

----------------------------------------------------------------------------
\* What the reader of a payload does: serde_json::from_str on the decrypted
\* text. Each parse operator takes a text and a position and gives the
\* position after the item it parsed, or 0 when the text is malformed there.

\* A JSON string: a quote, characters (a backslash escapes the next), a quote.
RECURSIVE parse_str_body(_, _)
parse_str_body(s, i) ==
  IF i > Len(s) THEN 0
  ELSE IF s[i] = DQ THEN i + 1
  ELSE IF s[i] = "\\" THEN parse_str_body(s, i + 2)
  ELSE parse_str_body(s, i + 1)

parse_string(s, i) ==
  IF i <= Len(s) /\ s[i] = DQ THEN parse_str_body(s, i + 1) ELSE 0

RECURSIVE skip_digits(_, _)
skip_digits(s, i) ==
  IF i <= Len(s) /\ s[i] \in Digits THEN skip_digits(s, i + 1) ELSE i

\* A JSON number: digits, optionally a point and more digits.
parse_number(s, i) ==
  LET j == skip_digits(s, i)
  IN  IF j = i THEN 0
      ELSE IF j <= Len(s) /\ s[j] = "."
        THEN LET k == skip_digits(s, j + 1) IN IF k = j + 1 THEN 0 ELSE k
        ELSE j

RECURSIVE parse_value(_, _)
RECURSIVE parse_elements(_, _)
RECURSIVE parse_members(_, _)

\* The elements of an array after its opening bracket or a comma.
parse_elements(s, i) ==
  LET j == parse_value(s, i)
  IN  IF j = 0 \/ j > Len(s) THEN 0
      ELSE IF s[j] = "]" THEN j + 1
      ELSE IF s[j] = "," THEN parse_elements(s, j + 1)
      ELSE 0

\* The members of an object after its opening brace or a comma.
parse_members(s, i) ==
  LET j == parse_string(s, i)
  IN  IF j = 0 \/ j > Len(s) \/ s[j] # ":" THEN 0
      ELSE LET k == parse_value(s, j + 1)
           IN  IF k = 0 \/ k > Len(s) THEN 0
               ELSE IF s[k] = "}" THEN k + 1
               ELSE IF s[k] = "," THEN parse_members(s, k + 1)
               ELSE 0

parse_value(s, i) ==
  IF i > Len(s) THEN 0
  ELSE IF s[i] = DQ THEN parse_string(s, i)
  ELSE IF s[i] \in Digits THEN parse_number(s, i)
  ELSE IF s[i] = "[" THEN
    IF i + 1 <= Len(s) /\ s[i + 1] = "]" THEN i + 2 ELSE parse_elements(s, i + 1)
  ELSE IF s[i] = "{" THEN
    IF i + 1 <= Len(s) /\ s[i + 1] = "}" THEN i + 2 ELSE parse_members(s, i + 1)
  ELSE 0

\* The text is one JSON value with nothing after it.
from_str_ok(s) == parse_value(s, 1) = Len(s) + 1

\* The text is one JSON object with nothing after it.
is_object(s) == from_str_ok(s) /\ s[1] = "{"

\* The key/value pairs of a JSON object text, from position i (after the
\* opening brace or a comma), as texts: key without its quotes, value as
\* written.
RECURSIVE members_from(_, _)
members_from(s, i) ==
  IF i > Len(s) \/ s[i] = "}" THEN <<>>
  ELSE LET j == parse_string(s, i)
           k == parse_value(s, j + 1)
       IN  <<[key |-> SubSeq(s, i + 1, j - 2), value |-> SubSeq(s, j + 1, k - 1)]>>
             \o members_from(s, k + 1)

\* The object a valid payload decodes to, as its sequence of members.
object_members(s) == members_from(s, 2)

----------------------------------------------------------------------------
\* The state machine: one builder and a twin that receives the same calls.
\* op names the most recent call, ret and codec hold what it returned and
\* the codec invocation it made. The rest is history: sets maps each key passed to
\* set_claim since the last build to the latest claim passed under it and to
\* whether it was passed once or more often; builtFrom is sets as the most
\* recent build found it; builds counts the build calls (2 standing for two
\* or more); footerHist holds the last two set_footer arguments.

NoSets == [k \in {} |-> [claim |-> [key |-> k, value |-> Unserializable], times |-> 1]]

Init ==
  /\ builder = new
  /\ twin = new
  /\ op = "new"
  /\ ret = "new"
  /\ codec = NoCall
  /\ ret2 = "new"
  /\ codec2 = NoCall
  /\ sets = NoSets
  /\ builtFrom = NoSets
  /\ builds = 0
  /\ footerHist = <<>>

SetClaim ==
  \E value \in Claims :
    /\ builder' = set_claim(builder, value)
    /\ twin' = set_claim(twin, value)
    /\ op' = "set_claim"
    /\ ret' = "self"
    /\ ret2' = "self"
    /\ codec' = NoCall
    /\ codec2' = NoCall
    /\ sets' = [k \in DOMAIN sets \cup {value.key} |->
                  IF k # value.key THEN sets[k]
                  ELSE [claim |-> value,
                        times |-> IF k \in DOMAIN sets THEN 2 ELSE 1]]
    /\ builtFrom' = NoSets
    /\ UNCHANGED <<builds, footerHist>>

SetFooter ==
  \E footer \in Footers :
    /\ builder' = set_footer(builder, footer)
    /\ twin' = set_footer(twin, footer)
    /\ op' = "set_footer"
    /\ ret' = "self"
    /\ ret2' = "self"
    /\ codec' = NoCall
    /\ codec2' = NoCall
    /\ builtFrom' = NoSets
    /\ footerHist' = IF Len(footerHist) < 2 THEN Append(footerHist, footer)
                     ELSE <<footerHist[2], footer>>
    /\ UNCHANGED <<sets, builds>>

Build ==
  \E key \in SharedKeys :
    \E order \in into_values(builder.claims), order2 \in into_values(twin.claims) :
      LET r == build(builder, key, order)
          r2 == build(twin, key, order2)
      IN  /\ builder' = r.builder
          /\ op' = "build"
          /\ ret' = r.ret
          /\ codec' = r.codec
          /\ twin' = r2.builder
          /\ ret2' = r2.ret
          /\ codec2' = r2.codec
          /\ builtFrom' = sets
          /\ sets' = NoSets
          /\ builds' = IF builds < 2 THEN builds + 1 ELSE 2
          /\ UNCHANGED footerHist

Next == SetClaim \/ SetFooter \/ Build

Spec == Init /\ [][Next]_vars

----------------------------------------------------------------------------
\* Vocabulary of the properties

\* The most recent call was a build.
Built == op = "build"

\* The claims the most recent build found registered, by the calls made.
Registered == {builtFrom[k].claim : k \in DOMAIN builtFrom}

\* A claim as a key/value pair of texts, as its serializer renders them.
Pair(c) == [key |-> <<c.key>>, value |-> c.value.text]

\* The members of the payload as a set, and their number.
PayloadPairs == {object_members(codec.payload)[i] :
                   i \in 1..Len(object_members(codec.payload))}

PayloadSize == Len(object_members(codec.payload))

\* The footer of the most recent set_footer call, if any.
LatestFooter == IF footerHist = <<>> THEN NoFooter ELSE footerHist[Len(footerHist)]

EmptyObject == <<"{", "}">>

\* s holds t as a run of consecutive characters.
Contains(s, t) == \E i \in 1..(Len(s) - Len(t) + 1) : SubSeq(s, i, i + Len(t) - 1) = t

\* A claim's key and value as its serializer writes them inside the braces.
KeyValueText(c) == <<DQ, c.key, DQ, ":">> \o c.value.text

----------------------------------------------------------------------------
\* C1: whatever claims were set, the payload build hands to the codec is a
\* syntactically valid JSON object, and the empty object when no claim is
\* registered.
PayloadIsValidJson ==
  codec.called =>
    /\ is_object(codec.payload)
    /\ Registered = {} => codec.payload = EmptyObject

\* C2: when the registered claims have pairwise distinct keys (no key was set
\* twice), the payload decodes to an object whose key/value pairs are exactly
\* the registered claims, whatever the order of the calls and of the
\* iteration.
PayloadEqualsRegisteredClaims ==
  (codec.called /\ \A k \in DOMAIN builtFrom : builtFrom[k].times = 1) =>
    /\ is_object(codec.payload)
    /\ PayloadPairs = {Pair(c) : c \in Registered}
    /\ PayloadSize = Cardinality(Registered)

\* C3: a build on a builder with no registered claim hands the codec exactly
\* the two characters of the empty object.
EmptyRegistryGivesEmptyObject ==
  (Built /\ DOMAIN builtFrom = {}) => codec.called /\ codec.payload = EmptyObject

EmptyRegistryBuilt ==
  /\ ret = "Ok"
  /\ DOMAIN builtFrom = {}
  /\ footerHist # <<>>
  /\ codec.payload = EmptyObject

\* C4: a key set several times appears in the payload of the next build
\* exactly once and with the value of the latest set_claim call under it.
LastWriteWins ==
  codec.called =>
    \A k \in DOMAIN builtFrom :
      builtFrom[k].times = 2 =>
        /\ is_object(codec.payload)
        /\ Cardinality({i \in 1..PayloadSize :
                          object_members(codec.payload)[i].key = <<k>>}) = 1
        /\ Pair(builtFrom[k].claim) \in PayloadPairs

\* C5: after a build that returned a token the registry is empty.
RegistryEmptyAfterBuild == ret = "Ok" => DOMAIN builder.claims = {}

RegistryDrained ==
  /\ ret = "Ok"
  /\ Cardinality(Registered) = 2
  /\ DOMAIN builder.claims = {}

\* C6: when a registered claim fails to serialize, build returns a
\* serialization error and does not invoke the codec.
SerializationErrorSkipsCodec ==
  (Built /\ \E c \in Registered : ~to_string(c).ok) =>
    ret = "SerErr" /\ ~codec.called

SerializationErrorAmongClaims ==
  /\ ret = "SerErr"
  /\ ~codec.called
  /\ \E c, d \in Registered : ~to_string(c).ok /\ to_string(d).ok

\* C7: the footer build passes to the codec is the argument of the most
\* recent set_footer call, absent when there was none.
FooterIsLatestSet == codec.called => codec.footer = LatestFooter

FooterReplacedThenBuilt ==
  /\ codec.called
  /\ footerHist = <<"f1", "f2">>
  /\ codec.footer = "f2"
  /\ Registered # {}

\* C8: with one registered claim the payload is that claim's serialized
\* object character for character, and every registered claim's key and
\* value text stands in the payload as its serializer wrote it.
PayloadKeepsClaimText ==
  codec.called =>
    /\ Cardinality(Registered) = 1 =>
         \A c \in Registered : codec.payload = to_string(c).raw
    /\ \A c \in Registered : Contains(codec.payload, KeyValueText(c))

\* C9: a build that follows an earlier build hands over exactly the claims
\* set since that earlier build, and the empty object when none was set.
LaterBuildHasOnlyFreshClaims ==
  (codec.called /\ builds = 2) =>
    /\ is_object(codec.payload)
    /\ PayloadPairs = {Pair(c) : c \in Registered}
    /\ Registered = {} => codec.payload = EmptyObject

\* C10 as stated: two builders given the same calls and the same key hand
\* the codec the same payload string and the same footer.
SamePayloadString ==
  (codec.called /\ codec2.called) =>
    codec.payload = codec2.payload /\ codec.footer = codec2.footer

\* What the loop of build leaves of a claim: its serialized text without the
\* braces at its two ends.
Fragment(c) == trim_end_matches(trim_start_matches(to_string(c).raw, "{"), "}")

\* C10 as amended: two builders given the same calls and the same key return
\* alike and hand the codec the same key and footer, and payloads that differ
\* in nothing but the order of the claims: the same string when at most one
\* claim is registered, otherwise strings of the same length holding the
\* same fragments.
SamePayloadUpToOrder ==
  Built =>
    /\ ret2 = ret
    /\ codec2.called = codec.called
    /\ codec.called =>
         /\ codec2.footer = codec.footer
         /\ codec2.key = codec.key
         /\ Len(codec2.payload) = Len(codec.payload)
         /\ \A c \in Registered : /\ Contains(codec.payload, Fragment(c))
                                  /\ Contains(codec2.payload, Fragment(c))
         /\ Cardinality(Registered) <= 1 => codec2.payload = codec.payload

TwinsDifferInOrder ==
  /\ codec.called
  /\ codec2.called
  /\ Cardinality(Registered) = 2
  /\ codec2.payload # codec.payload
  /\ codec2.footer = "f1"

\* C11: when the codec's encode step fails during build, build returns the
\* codec's error to the caller.
CodecErrorForwarded ==
  (Built /\ codec.called /\ encode_fails(codec.key)) => ret = "CodecErr"

\* C12: a build invokes the codec at most once, and once when every claim
\* serializes; set_claim and set_footer do not invoke it; when it is invoked
\* every registered claim has been serialized and merged into the payload.
CodecOncePerBuild ==
  /\ codec.times <= 1
  /\ op \in {"set_claim", "set_footer"} => codec.times = 0
  /\ (Built /\ \A c \in Registered : to_string(c).ok) => codec.times = 1
  /\ codec.times > 0 =>
       /\ codec.merged = Cardinality(Registered)
       /\ \A c \in Registered : to_string(c).ok /\ Contains(codec.payload, Fragment(c))

CodecInvokedAfterMerge ==
  /\ Built
  /\ codec.times = 1
  /\ codec.merged = 2
  /\ Cardinality(Registered) = 2

\* C13: a build that returns a serialization error leaves the registry empty
\* as well, and a build that follows it at once starts from the empty
\* registry and hands the codec the empty object.
FailedBuildEmptiesRegistry ==
  [][ /\ (op' = "build" /\ ret' = "SerErr") => DOMAIN builder'.claims = {}
      /\ (Built /\ ret = "SerErr" /\ op' = "build") =>
           codec'.called /\ codec'.payload = EmptyObject ]_vars

FailedBuildLostClaims ==
  /\ Built
  /\ ret = "SerErr"
  /\ DOMAIN builder.claims = {}
  /\ Cardinality(Registered) = 2
  /\ \E c \in Registered : to_string(c).ok

\* C14: a build, successful or failed, leaves the builder's footer as it was.
BuildKeepsFooter == [][op' = "build" => builder'.footer = builder.footer]_vars

FooterSurvivesBuild ==
  /\ Built
  /\ builds = 2
  /\ builder.footer = "f1"
  /\ codec.footer = "f1"

\* C15: set_claim leaves the footer and every registry entry but the one of
\* its claim's key as they were; set_footer leaves the registry as it was.
SettersChangeOnlyTheirField ==
  [][ /\ op' = "set_claim" =>
           /\ builder'.footer = builder.footer
           /\ \E k \in DOMAIN sets' :
                /\ \A j \in DOMAIN sets' \ {k} : j \in DOMAIN sets /\ sets'[j] = sets[j]
                /\ DOMAIN builder'.claims = DOMAIN builder.claims \cup {k}
                /\ \A j \in DOMAIN builder.claims \ {k} :
                     builder'.claims[j] = builder.claims[j]
      /\ op' = "set_footer" => builder'.claims = builder.claims ]_vars

ClaimSetBesideFooter ==
  /\ op = "set_claim"
  /\ Cardinality(DOMAIN builder.claims) = 2
  /\ builder.footer = "f1"

====
